---- MODULE Spec2Model ----
(***************************************************************************)
(* The JSON simulation engine of equihomepartners/platform: the simulation *)
(* worker of json-simulation/src/index.ts (self.onmessage and the          *)
(* functions it calls) and the calculation library                          *)
(* json-simulation/src/utils/calculations.ts.                               *)
(*                                                                         *)
(* The worker is a single JavaScript thread.  The main thread posts        *)
(* messages into the worker's event queue (inbox) at any time; the worker  *)
(* takes one message at a time and runs self.onmessage on it to            *)
(* completion, posting responses (outbox).  The handler of a monteCarlo    *)
(* message is a loop over chunks; it is shown here one chunk per step so   *)
(* that messages posted by the main thread while the loop runs (a cancel   *)
(* in particular) appear in the inbox between two chunks, which is where   *)
(* they are in the program: queued, and not looked at by the loop.         *)
(***************************************************************************)
EXTENDS Integers, Sequences, FiniteSets, TLC

(***************************************************************************)
(* Bounds of the model.                                                    *)
(***************************************************************************)
MaxRequests == 3      \* messages the main thread posts in one behaviour
MaxSims == 3          \* largest numSimulations of a monteCarlo request
MaxChunkSize == 2     \* largest chunkSize a request supplies
MaxSpin == 2          \* chunks of a never-ending chunk loop that are followed

(***************************************************************************)
(* JavaScript values.                                                      *)
(***************************************************************************)
\* `undefined` in a numeric position (an absent id, an absent progress field)
Undefined == -1
\* `undefined` in a string position (an absent task or status)
UndefinedStr == "<undefined>"
\* IEEE-754 +Infinity and NaN, the values of Math.ceil(n / 0) and Math.ceil(0 / 0)
Infinity == 2000000000
NaN == -2000000000

\* an optional value: <<>> when absent, <<v>> when present
None == <<>>
Some(v) == <<v>>
IsSome(o) == o # <<>>
Get(o) == o[1]

\* a < b on JavaScript numbers (false whenever one side is NaN)
JsLess(a, b) ==
  IF a = NaN \/ b = NaN THEN FALSE ELSE a < b

JsMin(a, b) == IF JsLess(b, a) THEN b ELSE a

\* CeilDiv with Math.floor in the place of Math.ceil
CeilDivRoundingDown(n, d) ==
  IF d = 0 THEN (IF n = 0 THEN NaN ELSE Infinity)
  ELSE IF d > 0 THEN n \div d
  ELSE -((n + (-d) - 1) \div (-d))

\* Math.ceil(n / d) for integers n >= 0 and d
CeilDiv(n, d) ==
  IF d = 0 THEN (IF n = 0 THEN NaN ELSE Infinity)
  ELSE IF d > 0 THEN (n + d - 1) \div d
  ELSE -(n \div (-d))

\* RoundPercent of the chunks before the current one: chunk / numChunks
RoundPercentOfChunksBefore(k, n) ==
  IF n = Infinity THEN 0 ELSE (200 * (k - 1) + n) \div (2 * n)

\* Math.round(((k) / n) * 100) for k >= 0, n >= 1 or n = Infinity
RoundPercent(k, n) ==
  IF n = Infinity THEN 0 ELSE (200 * k + n) \div (2 * n)

(***************************************************************************)
(* utils/calculations.ts.  Rates are fixed-point numbers with Scale units  *)
(* to 1 (0.1 is Scale \div 10); an amount times a discount factor is held  *)
(* in the same units.  Cash flows and time points are integers.            *)
(***************************************************************************)
Scale == 100

Abs(x) == IF x < 0 THEN -x ELSE x

\* a / b rounded to the nearest unit, b # 0
Quot(a, b) ==
  LET q == (2 * Abs(a) + Abs(b)) \div (2 * Abs(b))
  IN  IF (a < 0) = (b < 0) THEN q ELSE -q

RECURSIVE Power(_, _)
Power(x, n) == IF n = 0 THEN 1 ELSE x * Power(x, n - 1)

\* amount * Math.pow(1 + guess, -t) in Scale units; x = Scale + guess > 0, t >= 0
Discounted(amount, x, t) == Quot(amount * Scale * Power(Scale, t), Power(x, t))

\* `let guess = 0.1`, `maxIterations = 1000`, `tolerance = 0.0000001`.  The
\* tolerance is below the resolution of the fixed-point numbers: it is one unit.
InitialGuess == Scale \div 10
maxIterations == 1000
tolerance == 1

\* the inner loop of calculateIrr: the sum of cashFlows[j] * (1 + guess)^(-times[j])
RECURSIVE NpvAt(_, _, _, _)
NpvAt(cashFlows, times, x, j) ==
  IF j > Len(cashFlows) THEN 0
  ELSE Discounted(cashFlows[j], x, times[j]) + NpvAt(cashFlows, times, x, j + 1)

\* minus the sum of times[j] * cashFlows[j] * (1 + guess)^(-times[j] - 1)
RECURSIVE DerivativeAt(_, _, _, _)
DerivativeAt(cashFlows, times, x, j) ==
  IF j > Len(cashFlows) THEN 0
  ELSE DerivativeAt(cashFlows, times, x, j + 1)
       - Quot(Discounted(times[j] * cashFlows[j], x, times[j]) * Scale, x)

\* the Newton loop of calculateIrr from iteration i with the given guess;
\* None is null.  A zero derivative and a guess of exactly -1 make the step
\* infinite or NaN, after which the loop can only end in null.
RECURSIVE Newton(_, _, _, _)
Newton(cashFlows, times, guess, i) ==
  IF i >= maxIterations THEN None
  ELSE IF Scale + guess <= 0 THEN None
  ELSE LET x == Scale + guess
           npv == NpvAt(cashFlows, times, x, 1)
           derivativeNpv == DerivativeAt(cashFlows, times, x, 1)
       IN  IF Abs(npv) < tolerance THEN Some(guess)
           ELSE IF derivativeNpv = 0 THEN None
           ELSE LET newGuess == guess - Quot(npv * Scale, derivativeNpv)
                IN  IF Abs(newGuess - guess) < tolerance THEN Some(newGuess)
                    ELSE IF newGuess < -Scale THEN None
                    ELSE Newton(cashFlows, times, newGuess, i + 1)

\* which exit of the loop of calculateIrr a run from iteration i takes: "npv"
\* (return guess), "step" (return newGuess), "below" (guess < -1; return
\* null) or "exhausted" (the loop ends; return null).  A guess of exactly -1
\* makes npv NaN or infinite and every later guess NaN; a zero derivative
\* makes newGuess -Infinity when npv > 0 and +Infinity, then NaN, otherwise
RECURSIVE NewtonExit(_, _, _, _)
NewtonExit(cashFlows, times, guess, i) ==
  IF i >= maxIterations THEN "exhausted"
  ELSE IF Scale + guess <= 0 THEN "exhausted"
  ELSE LET x == Scale + guess
           npv == NpvAt(cashFlows, times, x, 1)
           derivativeNpv == DerivativeAt(cashFlows, times, x, 1)
       IN  IF Abs(npv) < tolerance THEN "npv"
           ELSE IF derivativeNpv = 0
                  THEN (IF npv > 0 THEN "below" ELSE "exhausted")
           ELSE LET newGuess == guess - Quot(npv * Scale, derivativeNpv)
                IN  IF Abs(newGuess - guess) < tolerance THEN "step"
                    ELSE IF newGuess < -Scale THEN "below"
                    ELSE NewtonExit(cashFlows, times, newGuess, i + 1)

\* calculateIrr with `return 0` for fewer than two cash flows
calculateIrrZeroForShort(cashFlows, timePoints) ==
  IF Len(cashFlows) < 2 THEN Some(0)
  ELSE LET times == IF IsSome(timePoints) THEN Get(timePoints)
                    ELSE [j \in 1..Len(cashFlows) |-> j - 1]
       IN  IF Len(cashFlows) # Len(times) THEN None
           ELSE Newton(cashFlows, times, InitialGuess, 0)

\* calculateIrr(cashFlows, timePoints); timePoints is None when the argument
\* is omitted, and then the times are the indices 0, 1, 2 and so on
calculateIrr(cashFlows, timePoints) ==
  IF Len(cashFlows) < 2 THEN None
  ELSE LET times == IF IsSome(timePoints) THEN Get(timePoints)
                    ELSE [j \in 1..Len(cashFlows) |-> j - 1]
       IN  IF Len(cashFlows) # Len(times) THEN None
           ELSE Newton(cashFlows, times, InitialGuess, 0)

\* calculateEquityMultiple returning the profit, totalReturns - initialInvestment
calculateEquityMultipleAsProfit(totalReturns, initialInvestment) ==
  <<totalReturns - initialInvestment, 1>>

\* calculateEquityMultiple: totalReturns / initialInvestment, kept as the
\* fraction <<numerator, denominator>>
calculateEquityMultiple(totalReturns, initialInvestment) ==
  <<totalReturns, initialInvestment>>

\* [...values].sort((a, b) => a - b): insertion into an ascending sequence
RECURSIVE InsertAscending(_, _)
InsertAscending(sorted, v) ==
  IF sorted = <<>> THEN <<v>>
  ELSE IF v < Head(sorted) THEN <<v>> \o sorted
  ELSE <<Head(sorted)>> \o InsertAscending(Tail(sorted), v)

RECURSIVE SortAscending(_)
SortAscending(values) ==
  IF values = <<>> THEN <<>>
  ELSE InsertAscending(SortAscending(Tail(values)), Head(values))

\* calculatePercentile with the two interpolation weights exchanged
calculatePercentileSwappedWeights(values, percentile) ==
  LET sorted == SortAscending(values)
      index100 == percentile * (Len(sorted) - 1)
      lower == index100 \div 100
      weight100 == index100 % 100
  IN  IF weight100 = 0 THEN 100 * sorted[lower + 1]
      ELSE sorted[lower + 1] * weight100 + sorted[lower + 2] * (100 - weight100)

\* calculatePercentile(values, percentile) for a non-empty array, in
\* hundredths: index = percentile / 100 * (length - 1); an integer index
\* selects an element, another one interpolates between its neighbours
calculatePercentile(values, percentile) ==
  LET sorted == SortAscending(values)
      index100 == percentile * (Len(sorted) - 1)
      lower == index100 \div 100
      weight100 == index100 % 100
  IN  IF weight100 = 0 THEN 100 * sorted[lower + 1]
      ELSE sorted[lower + 1] * (100 - weight100) + sorted[lower + 2] * weight100

(***************************************************************************)
(* Message and response vocabulary (SimulationMessageType,                 *)
(* SimulationResponseType).                                                *)
(***************************************************************************)
MessageTypes ==
  {"monteCarlo", "portfolioProjections", "sensitivityAnalysis",
   "compareScenarios", "clearCache", "cancel"}

\* a message type the switch of self.onmessage has no case for
UnknownTypes == {"ping"}

ResultTypes ==
  {"monteCarloResults", "portfolioProjections", "sensitivityResults",
   "comparisonResults", "cacheCleared"}

TerminalTypes == ResultTypes \cup {"error", "cancelled"}

(***************************************************************************)
(* State.                                                                  *)
(*   inbox     messages posted to the worker and not yet handled, each     *)
(*             [type, id, atChunk, midRun]; the payload (e.data.data) is   *)
(*             read by the handler only and is drawn when the handler      *)
(*             runs.  atChunk and midRun are not part of the message:      *)
(*             they record, for a cancel posted while the run of its id    *)
(*             is in the chunk loop, how many chunks the run had finished, *)
(*             and whether that was after the first chunk and with the     *)
(*             chunk then in progress not the last one                     *)
(*   outbox    every response posted by self.postMessage, in order         *)
(*   served    every message taken from the inbox so far, with its payload *)
(*   pc        "idle" between two handlers, "mc" inside the chunk loop of  *)
(*             runMonteCarloSimulation                                     *)
(*   run       the locals of runMonteCarloSimulation while pc = "mc"       *)
(*   cache     the module-level memoization cache: key string -> value     *)
(*   nextId    the correlation id the main thread gives its next request   *)
(*   posted    number of messages posted so far                            *)
(*   irrCalls  the memoizedIrr calls of the last handler, in order, each   *)
(*             [key, hit, value, cashFlows, timePoints]                    *)
(*   calc      the last call of a function of utils/calculations.ts made   *)
(*             from outside the worker: [fn, args, result]; NoCall before  *)
(*             the first one                                               *)
(*   loan      one loan of the cash-flow simulator: its state, its age in  *)
(*             months, the events that fired in its last active month and  *)
(*             the terminal cash flows it has emitted; NoLoan before it is *)
(*             originated                                                  *)
(***************************************************************************)
VARIABLES inbox, outbox, served, pc, run, cache, nextId, posted, irrCalls, calc,
          loan

vars == <<inbox, outbox, served, pc, run, cache, nextId, posted, irrCalls, calc, loan>>

\* no library call made yet
NoCall == [fn |-> "none"]

\* no loan originated yet
NoLoan ==
  [state |-> "none", month |-> 0, defaultRate |-> 0, earlyRepaymentRate |-> 0,
   avgTermLength |-> 0, fired |-> {}, cashFlows |-> <<>>]

NoRun ==
  [id |-> Undefined, numSimulations |-> 0, chunkSize |-> 0, numChunks |-> 0,
   chunk |-> 0, reportProgress |-> FALSE, timeHorizon |-> 0,
   initialInvestment |-> 0, results |-> <<>>, simulated |-> <<>>]

Init ==
  /\ inbox = <<>>
  /\ outbox = <<>>
  /\ served = <<>>
  /\ pc = "idle"
  /\ run = NoRun
  /\ cache = <<>>
  /\ nextId = 1
  /\ posted = 0
  /\ irrCalls = <<>>
  /\ calc = NoCall
  /\ loan = NoLoan

(***************************************************************************)
(* Responses.  Every response is a record of the same shape; a field the   *)
(* posted object does not have is Undefined / UndefinedStr / FALSE.  req   *)
(* is not part of the posted object: it is the position in `served` of     *)
(* the message whose handler posted the response.                          *)
(***************************************************************************)
Response(type, id, req) ==
  [type |-> type, id |-> id, req |-> req,
   task |-> UndefinedStr, hasMessage |-> FALSE, status |-> UndefinedStr,
   progress |-> Undefined, currentChunk |-> Undefined, totalChunks |-> Undefined,
   processedSimulations |-> Undefined, totalSimulations |-> Undefined,
   data |-> <<>>]

\* { type: 'progress', id, data: { task, progress, status, message } }
StatusProgress(id, req, task, progress, status) ==
  [Response("progress", id, req) EXCEPT
     !.task = task, !.progress = progress, !.status = status, !.hasMessage = TRUE]

\* the catch clause of self.onmessage
CaughtError(id, req, type) ==
  [Response("error", id, req) EXCEPT !.task = type, !.hasMessage = TRUE]

(***************************************************************************)
(* The main thread posts a message.  A request gets a fresh correlation    *)
(* id; a cancel carries the id of a request posted earlier.                *)
(***************************************************************************)
PostMessage(type) ==
  /\ posted < MaxRequests
  /\ type # "cancel"
  /\ inbox' = Append(inbox, [type |-> type, id |-> nextId,
                              atChunk |-> Undefined, midRun |-> FALSE])
  /\ nextId' = nextId + 1
  /\ posted' = posted + 1
  /\ UNCHANGED <<outbox, served, pc, run, cache, irrCalls, calc, loan>>

PostCancel(id) ==
  /\ posted < MaxRequests
  /\ id \in 1..(nextId - 1)
  /\ inbox' = Append(inbox,
       [type |-> "cancel", id |-> id,
        atChunk |-> IF pc = "mc" /\ run.id = id THEN run.chunk ELSE Undefined,
        midRun |-> /\ pc = "mc"
                   /\ run.id = id
                   /\ run.chunk >= 1
                   /\ JsLess(run.chunk + 1, run.numChunks)])
  /\ posted' = posted + 1
  /\ UNCHANGED <<outbox, served, pc, run, cache, nextId, irrCalls, calc, loan>>

\* Takes for a worker that starts a handler while the chunk loop of a run
\* is between two chunks
TakesBetweenChunks(type) ==
  /\ inbox # <<>>
  /\ Head(inbox).type = type

\* the worker takes the next message: pc = "idle" and the inbox is not empty
Takes(type) ==
  /\ pc = "idle"
  /\ inbox # <<>>
  /\ Head(inbox).type = type

\* the bookkeeping every handler shares
Taken(data) ==
  /\ inbox' = Tail(inbox)
  /\ served' = Append(served, [type |-> Head(inbox).type, id |-> Head(inbox).id,
                               atChunk |-> Head(inbox).atChunk,
                               midRun |-> Head(inbox).midRun, data |-> data])
  /\ UNCHANGED <<nextId, posted, calc, loan>>

(***************************************************************************)
(* monteCarlo: case 'monteCarlo' of self.onmessage and                     *)
(* runMonteCarloSimulation.                                                *)
(***************************************************************************)
\* the default of `chunkSize = 1000` in the destructuring of params
DefaultChunkSize == 1000

\* parameter sets a request may carry beside the loop controls; the first is
\* DEFAULT_PARAMS-like and valid, the others each break one documented
\* constraint (allocation sums to 101, a percentage above 100, a negative
\* time horizon)
ValidParams ==
  [timeHorizon |-> 1, initialInvestment |-> 100, interestRate |-> 5,
   zoneAllocation |-> <<60, 30, 10>>]

ParamSets ==
  { ValidParams,
    [ValidParams EXCEPT !.zoneAllocation = <<60, 39, 2>>],
    [ValidParams EXCEPT !.interestRate = 150],
    [ValidParams EXCEPT !.timeHorizon = -2] }

\* a payload object of a monteCarlo message
MonteCarloPayload(n, c, r, p) ==
  Some([numSimulations |-> n, chunkSize |-> c, reportProgress |-> r, params |-> p])

\* the payloads of a monteCarlo message: undefined; every loop control with
\* the valid parameters; every parameter set with one multi-chunk loop control
MonteCarloData ==
  {None}
  \cup { MonteCarloPayload(n, c, r, ValidParams) :
           n \in -1..MaxSims,
           c \in {None} \cup {Some(k) : k \in -1..MaxChunkSize},
           r \in {None, Some(FALSE)} }
  \cup { MonteCarloPayload(MaxSims, Some(1), None, p) : p \in ParamSets }

\* effective returns (percent) the three generateRandomValue draws of one
\* simulation can add up to
RandomReturns == {0, 100}

\* the draws of a run in which Math.random happens to repeat itself
SteadyReturns == {0}

\* one simulation: simValues[0] = initialInvestment,
\* simValues[year] = simValues[year - 1] * (1 + effectiveReturn / 100)
RECURSIVE simValues(_, _, _)
simValues(initialInvestment, timeHorizon, effectiveReturn) ==
  IF timeHorizon < 0 THEN <<>>
  ELSE IF timeHorizon = 0 THEN <<initialInvestment>>
  ELSE LET prev == simValues(initialInvestment, timeHorizon - 1, effectiveReturn)
       IN  Append(prev, (prev[Len(prev)] * (100 + effectiveReturn)) \div 100)

\* new Array(n) and new Float64Array(n) throw a RangeError for a negative length
InvalidLength(n) == n < 0

\* the chunk loop's condition `chunk < numChunks`
MoreChunks(r) == JsLess(r.chunk, r.numChunks)

startSim(r) == r.chunk * r.chunkSize
endSim(r) == JsMin((r.chunk + 1) * r.chunkSize, r.numSimulations)

\* ChunkProgress with min(...) left out of processedSimulations
ChunkProgressUncapped(r, req) ==
  [Response("progress", Undefined, req) EXCEPT
     !.task = "monteCarlo",
     !.progress = RoundPercent(r.chunk + 1, r.numChunks),
     !.currentChunk = r.chunk + 1,
     !.totalChunks = r.numChunks,
     !.processedSimulations = (r.chunk + 1) * r.chunkSize,
     !.totalSimulations = r.numSimulations]

\* the progress message posted after a chunk (it has no id property)
ChunkProgress(r, req) ==
  [Response("progress", Undefined, req) EXCEPT
     !.task = "monteCarlo",
     !.progress = RoundPercent(r.chunk + 1, r.numChunks),
     !.currentChunk = r.chunk + 1,
     !.totalChunks = r.numChunks,
     !.processedSimulations = JsMin((r.chunk + 1) * r.chunkSize, r.numSimulations),
     !.totalSimulations = r.numSimulations]

\* self.onmessage takes a monteCarlo message: 'started' progress, then the
\* prologue of runMonteCarloSimulation up to the first test of the loop
HandleMonteCarlo(Payloads) ==
  /\ Takes("monteCarlo")
  /\ \E data \in Payloads :
       LET id == Head(inbox).id
           req == Len(served) + 1
           started == StatusProgress(id, req, "monteCarlo", 0, "started")
       IN  /\ Taken(data)
           /\ IF data = None \/ InvalidLength(Get(data).numSimulations)
                THEN \* destructuring undefined, or new Array(numSimulations), throws
                     /\ outbox' = outbox \o <<started, CaughtError(id, req, "monteCarlo")>>
                     /\ UNCHANGED <<pc, run>>
                ELSE LET d == Get(data)
                         cs == IF IsSome(d.chunkSize) THEN Get(d.chunkSize)
                               ELSE DefaultChunkSize
                     IN  /\ outbox' = Append(outbox, started)
                         /\ pc' = "mc"
                         /\ run' = [id |-> id,
                                    numSimulations |-> d.numSimulations,
                                    chunkSize |-> cs,
                                    numChunks |-> CeilDiv(d.numSimulations, cs),
                                    chunk |-> 0,
                                    reportProgress |-> (d.reportProgress = None),
                                    timeHorizon |-> d.params.timeHorizon,
                                    initialInvestment |-> d.params.initialInvestment,
                                    results |-> [i \in 1..d.numSimulations |-> <<>>],
                                    simulated |-> <<>>]
  /\ irrCalls' = <<>>
  /\ UNCHANGED cache

\* one pass of the chunk loop: the simulations startSim .. endSim - 1, then
\* the progress message
MonteCarloChunk(Returns) ==
  /\ pc = "mc"
  /\ MoreChunks(run)
  /\ run.numChunks = Infinity => run.chunk < MaxSpin
  /\ LET req == Len(served)
         sims == { i \in 0..(run.numSimulations - 1) : startSim(run) <= i /\ i < endSim(run) }
     IN  IF sims # {} /\ InvalidLength(run.timeHorizon + 1)
           THEN \* new Float64Array(timeHorizon + 1) throws in the first simulation
                /\ outbox' = Append(outbox, CaughtError(run.id, req, "monteCarlo"))
                /\ pc' = "idle"
                /\ run' = NoRun
           ELSE \E draw \in [sims -> Returns] :
                  /\ run' = [run EXCEPT
                       !.chunk = @ + 1,
                       !.results = [i \in DOMAIN @ |->
                          IF (i - 1) \in sims
                            THEN simValues(run.initialInvestment, run.timeHorizon, draw[i - 1])
                            ELSE @[i]],
                       !.simulated = @ \o [k \in 1..Cardinality(sims) |-> startSim(run) + k - 1]]
                  /\ outbox' = IF run.reportProgress
                                 THEN Append(outbox, ChunkProgress(run, req))
                                 ELSE outbox
                  /\ UNCHANGED pc
  /\ UNCHANGED <<inbox, served, cache, nextId, posted, irrCalls, calc, loan>>

\* the loop is over: runMonteCarloSimulation returns and the result is posted
MonteCarloFinish ==
  /\ pc = "mc"
  /\ ~MoreChunks(run)
  /\ outbox' = Append(outbox,
       [Response("monteCarloResults", run.id, Len(served)) EXCEPT !.data = run.results])
  /\ pc' = "idle"
  /\ run' = NoRun
  /\ UNCHANGED <<inbox, served, cache, nextId, posted, irrCalls, calc, loan>>

(***************************************************************************)
(* clearCache, cancel and the default case of the switch.                  *)
(***************************************************************************)
\* a clearing loop that stops one key short
ClearedCacheButOne(c) ==
  IF DOMAIN c = {} THEN c
  ELSE LET kept == CHOOSE key \in DOMAIN c : TRUE IN [key \in {kept} |-> c[key]]

\* for (const key in cache) delete cache[key]
ClearedCache(c) == <<>>

HandleClearCache ==
  /\ Takes("clearCache")
  /\ Taken(None)
  /\ cache' = ClearedCache(cache)
  /\ outbox' = Append(outbox, Response("cacheCleared", Head(inbox).id, Len(served) + 1))
  /\ irrCalls' = <<>>
  /\ UNCHANGED <<pc, run>>

\* case 'cancel': posts 'cancelled' with the id of the cancel message; it reads
\* and writes nothing else
HandleCancel ==
  /\ Takes("cancel")
  /\ Taken(None)
  /\ outbox' = Append(outbox,
       [Response("cancelled", Head(inbox).id, Len(served) + 1) EXCEPT !.hasMessage = TRUE])
  /\ irrCalls' = <<>>
  /\ UNCHANGED <<pc, run, cache>>

\* default: { type: 'error', id, data: { message } }
UnknownTypeError(id, req) ==
  [Response("error", id, req) EXCEPT !.hasMessage = TRUE]

HandleUnknown ==
  /\ pc = "idle"
  /\ inbox # <<>>
  /\ Head(inbox).type \notin MessageTypes
  /\ Taken(None)
  /\ outbox' = Append(outbox, UnknownTypeError(Head(inbox).id, Len(served) + 1))
  /\ irrCalls' = <<>>
  /\ UNCHANGED <<pc, run, cache>>

(***************************************************************************)
(* The memoization cache: memoize and memoizedIrr.                         *)
(***************************************************************************)
\* Array.prototype.join('-') of an array of integers
RECURSIVE Join(_)
Join(a) ==
  IF a = <<>> THEN ""
  ELSE IF Len(a) = 1 THEN ToString(a[1])
  ELSE ToString(a[1]) \o "-" \o Join(Tail(a))

\* the key function given to memoize:
\* `irr-${cashFlows.join('-')}-${timePoints?.join('-') || ''}`
IrrKey(cashFlows, timePoints) ==
  "irr-" \o Join(cashFlows) \o "-" \o
  (IF IsSome(timePoints) /\ Join(Get(timePoints)) # "" THEN Join(Get(timePoints)) ELSE "")

\* memoize without `cache[key] = result`
MemoizedStoringNothing(c, key, computed) ==
  IF key \in DOMAIN c
    THEN [value |-> c[key], cache |-> c, hit |-> TRUE, key |-> key]
    ELSE [value |-> computed, cache |-> c, hit |-> FALSE, key |-> key]

\* one call of the function memoize returns, on cache c: the value returned,
\* the cache afterwards, and whether the value came from the cache
Memoized(c, key, computed) ==
  IF key \in DOMAIN c
    THEN [value |-> c[key], cache |-> c, hit |-> TRUE, key |-> key]
    ELSE [value |-> computed, cache |-> c @@ (key :> computed), hit |-> FALSE, key |-> key]

\* memoizedIrr(cashFlows, timePoints) on cache c; the outcome also names the
\* arguments of the call
memoizedIrr(c, cashFlows, timePoints) ==
  Memoized(c, IrrKey(cashFlows, timePoints), calculateIrr(cashFlows, timePoints))
    @@ [cashFlows |-> cashFlows, timePoints |-> timePoints]

\* a sequence of memoizedIrr(cashFlows) calls, made in order on cache c:
\* the list of the calls' outcomes (the last one holds the final cache)
RECURSIVE IrrCalls(_, _)
IrrCalls(c, series) ==
  IF series = <<>> THEN <<>>
  ELSE LET first == memoizedIrr(c, Head(series), None)
       IN  <<first>> \o IrrCalls(first.cache, Tail(series))

CacheAfter(c, calls) == IF calls = <<>> THEN c ELSE calls[Len(calls)].cache

\* what irrCalls keeps of a call
CallLog(calls) ==
  [k \in 1..Len(calls) |->
     [key |-> calls[k].key, hit |-> calls[k].hit, value |-> calls[k].value,
      cashFlows |-> calls[k].cashFlows, timePoints |-> calls[k].timePoints]]

(***************************************************************************)
(* portfolioProjections.                                                   *)
(***************************************************************************)
\* calculatePortfolioProjections(monteCarloResults, timeHorizon); percentiles
\* in hundredths
calculatePortfolioProjections(monteCarloResults, timeHorizon) ==
  [y \in 1..(timeHorizon + 1) |->
     LET yearValues == [k \in 1..Len(monteCarloResults) |-> monteCarloResults[k][y]]
     IN  [year |-> y - 1,
          median |-> calculatePercentile(yearValues, 50),
          percentile_5 |-> calculatePercentile(yearValues, 5),
          percentile_25 |-> calculatePercentile(yearValues, 25),
          percentile_75 |-> calculatePercentile(yearValues, 75),
          percentile_95 |-> calculatePercentile(yearValues, 95)]]

\* payloads of a portfolioProjections message: undefined (reading
\* data.monteCarloResults throws), or the results of an earlier run
ProjectionData ==
  {None, Some([monteCarloResults |-> << <<100, 100>>, <<100, 200>>, <<100, 200>> >>,
               timeHorizon |-> 1])}

HandlePortfolioProjections(Payloads) ==
  /\ Takes("portfolioProjections")
  /\ \E data \in Payloads :
       LET id == Head(inbox).id
           req == Len(served) + 1
           started == StatusProgress(id, req, "portfolioProjections", 0, "started")
       IN  /\ Taken(data)
           /\ IF data = None
                THEN outbox' = outbox \o
                       <<started, CaughtError(id, req, "portfolioProjections")>>
                ELSE outbox' = outbox \o
                       <<started,
                         StatusProgress(id, req, "portfolioProjections", 100, "completed"),
                         [Response("portfolioProjections", id, req) EXCEPT
                            !.data = calculatePortfolioProjections(
                                       Get(data).monteCarloResults, Get(data).timeHorizon)]>>
  /\ irrCalls' = <<>>
  /\ UNCHANGED <<pc, run, cache>>

(***************************************************************************)
(* Cash-flow generators.  A sensitivityAnalysis payload and every scenario *)
(* of a compareScenarios payload hold a function cashFlowGenerator from a  *)
(* parameter record to a cash-flow series; the generators below stand for  *)
(* the functions a caller may supply.  Parameters are the entries of the   *)
(* record in insertion order, each <<name, value>>.                        *)
(***************************************************************************)
BaseParams == << <<"initialInvestment", 100>>, <<"rate", 20>>, <<"growth", 10>> >>

ParamValue(params, name) ==
  LET k == CHOOSE i \in 1..Len(params) : params[i][1] = name IN params[k][2]

Generators == {"fixed", "mixed", "unprofitable", "staged"}

\* cashFlowGenerator(params)
Generate(generator, params) ==
  CASE generator = "fixed" -> <<-100, 110>>
    [] generator = "mixed" ->
         <<-ParamValue(params, "initialInvestment"), ParamValue(params, "growth"),
           ParamValue(params, "initialInvestment") + ParamValue(params, "rate")>>
    [] generator = "unprofitable" ->
         <<ParamValue(params, "initialInvestment"), ParamValue(params, "rate")>>
    [] generator = "staged" ->
         <<-ParamValue(params, "initialInvestment"), -ParamValue(params, "growth"),
           3 * ParamValue(params, "rate")>>

\* cashFlows.slice(1).reduce((sum, cf) => sum + Math.max(0, cf), 0)
RECURSIVE SumPositive(_)
SumPositive(flows) ==
  IF flows = <<>> THEN 0
  ELSE (IF Head(flows) > 0 THEN Head(flows) ELSE 0) + SumPositive(Tail(flows))

\* the equity multiple as the worker computes it from a series
EquityMultipleOf(cashFlows) ==
  calculateEquityMultiple(SumPositive(Tail(cashFlows)), Abs(cashFlows[1]))

(***************************************************************************)
(* compareScenarios.                                                       *)
(***************************************************************************)
MaxScenarios == 2

\* a scenario: its name and its generator (None when the scenario object has
\* no cashFlowGenerator function, so that calling it throws a TypeError)
ScenarioPool ==
  { [name |-> g, generator |-> Some(g), params |-> BaseParams] : g \in Generators }
  \cup { [name |-> "broken", generator |-> None, params |-> BaseParams] }

\* payloads of a compareScenarios message: undefined (scenarios.map throws),
\* or an array of scenarios
ScenarioData ==
  {None} \cup
  { Some(a) : a \in UNION { [1..n -> ScenarioPool] : n \in 0..MaxScenarios } }

Scenario(g) == CHOOSE sc \in ScenarioPool : sc.name = g

\* the few payloads the engine as a whole is run with
FewScenarioData ==
  {None, Some(<<Scenario("fixed")>>), Some(<<Scenario("fixed"), Scenario("broken")>>),
   Some(<<Scenario("mixed"), Scenario("fixed")>>)}

\* the scenarios before the first one whose generator call throws
RECURSIVE Runnable(_)
Runnable(scenarios) ==
  IF scenarios = <<>> \/ Head(scenarios).generator = None THEN <<>>
  ELSE <<Head(scenarios)>> \o Runnable(Tail(scenarios))

\* compareScenarios(scenarios): the memoizedIrr calls it makes on cache c, in
\* order, up to the end or to the first throw
CompareCalls(c, scenarios) ==
  LET ok == Runnable(scenarios)
  IN  IrrCalls(c, [k \in 1..Len(ok) |-> Generate(Get(ok[k].generator), ok[k].params)])

\* the value compareScenarios returns when nothing throws
ComparisonResults(scenarios, calls) ==
  [k \in 1..Len(scenarios) |->
     LET cashFlows == Generate(Get(scenarios[k].generator), scenarios[k].params)
     IN  [name |-> scenarios[k].name,
          irr |-> calls[k].value,
          equityMultiple |-> EquityMultipleOf(cashFlows),
          cashFlows |-> cashFlows]]

HandleCompareScenarios(Payloads) ==
  /\ Takes("compareScenarios")
  /\ \E data \in Payloads :
       LET id == Head(inbox).id
           req == Len(served) + 1
           started == StatusProgress(id, req, "compareScenarios", 0, "started")
           calls == IF data = None THEN <<>> ELSE CompareCalls(cache, Get(data))
       IN  /\ Taken(data)
           /\ cache' = CacheAfter(cache, calls)
           /\ irrCalls' = CallLog(calls)
           /\ IF data = None \/ Len(Runnable(Get(data))) < Len(Get(data))
                THEN outbox' = outbox \o
                       <<started, CaughtError(id, req, "compareScenarios")>>
                ELSE outbox' = outbox \o
                       <<started,
                         StatusProgress(id, req, "compareScenarios", 100, "completed"),
                         [Response("comparisonResults", id, req) EXCEPT
                            !.data = ComparisonResults(Get(data), calls)]>>
  /\ UNCHANGED <<pc, run>>

(***************************************************************************)
(* sensitivityAnalysis.                                                    *)
(***************************************************************************)
\* params with the value of entry k multiplied by (100 + percent) / 100
Varied(params, k, percent) ==
  [params EXCEPT ![k] = <<@[1], (@[2] * (100 + percent)) \div 100>>]

\* the entries runSensitivityAnalysis varies: all but initialInvestment
VariedEntries(params) ==
  LET keep(k) == params[k][1] # "initialInvestment"
      F[k \in 0..Len(params)] ==
        IF k = 0 THEN <<>> ELSE IF keep(k) THEN Append(F[k - 1], k) ELSE F[k - 1]
  IN  F[Len(params)]

\* the cash-flow series runSensitivityAnalysis generates, in call order:
\* base, then high and low for every varied entry
SensitivitySeries(generator, params, percent) ==
  LET ks == VariedEntries(params)
  IN  <<Generate(generator, params)>> \o
      [n \in 1..(2 * Len(ks)) |->
         IF n % 2 = 1
           THEN Generate(generator, Varied(params, ks[(n + 1) \div 2], percent))
           ELSE Generate(generator, Varied(params, ks[n \div 2], -percent))]

\* a number as JavaScript arithmetic sees it: null counts as 0
NullAsZero(v) == IF v = None THEN 0 ELSE Get(v)

RECURSIVE Gcd(_, _)
Gcd(a, b) == IF b = 0 THEN a ELSE Gcd(b, a % b)

\* the fraction n / d in lowest terms with d >= 0; d = 0 stands for NaN when
\* n = 0 and for an infinity of the sign of n otherwise
Fraction(n, d) ==
  IF d = 0 THEN <<(IF n > 0 THEN 1 ELSE IF n < 0 THEN -1 ELSE 0), 0>>
  ELSE LET g == Gcd(Abs(n), Abs(d))
       IN  IF d < 0 THEN <<-(n \div g), (-d) \div g>> ELSE <<n \div g, d \div g>>

\* ((highValue - lowValue) / (baseValue * 2)) / (variationPercentage / 50)
IrrSensitivity(high, low, base, percent) ==
  Fraction(50 * (NullAsZero(high) - NullAsZero(low)), 2 * NullAsZero(base) * percent)

MultipleSensitivity(high, low, base, percent) ==
  LET difference == Fraction(high[1] * low[2] - low[1] * high[2], high[2] * low[2])
      relative == Fraction(difference[1] * base[2], difference[2] * 2 * base[1])
  IN  Fraction(50 * relative[1], relative[2] * percent)

\* Math.abs(b.sensitivity) - Math.abs(a.sensitivity) > 0: b sorts before a.
\* A comparison with NaN, or of two infinities, yields NaN and moves nothing.
SortsBefore(b, a) ==
  LET inf(f) == f[2] = 0 /\ f[1] # 0
      nan(f) == f[2] = 0 /\ f[1] = 0
  IN  IF nan(a) \/ nan(b) \/ (inf(a) /\ inf(b)) THEN FALSE
      ELSE IF inf(b) THEN TRUE
      ELSE IF inf(a) THEN FALSE
      ELSE Abs(b[1]) * Abs(a[2]) > Abs(a[1]) * Abs(b[2])

\* Object.values(results).sort(...): a stable sort by descending |sensitivity|
RECURSIVE InsertBySensitivity(_, _)
InsertBySensitivity(sorted, r) ==
  IF sorted = <<>> THEN <<r>>
  ELSE IF SortsBefore(r.sensitivity, Head(sorted).sensitivity) THEN <<r>> \o sorted
  ELSE <<Head(sorted)>> \o InsertBySensitivity(Tail(sorted), r)

RECURSIVE SortBySensitivity(_)
SortBySensitivity(results) ==
  IF results = <<>> THEN <<>>
  ELSE InsertBySensitivity(SortBySensitivity(SubSeq(results, 1, Len(results) - 1)),
                           results[Len(results)])

\* the value runSensitivityAnalysis returns, given its memoizedIrr calls
SensitivityResults(d, calls) ==
  LET ks == VariedEntries(d.baseParams)
      series == SensitivitySeries(Get(d.generator), d.baseParams, d.variationPercentage)
      one(n) ==
        IF d.targetMetric = "irr"
          THEN IrrSensitivity(calls[2 * n].value, calls[2 * n + 1].value,
                              calls[1].value, d.variationPercentage)
          ELSE MultipleSensitivity(EquityMultipleOf(series[2 * n]),
                                   EquityMultipleOf(series[2 * n + 1]),
                                   EquityMultipleOf(series[1]), d.variationPercentage)
  IN  SortBySensitivity(
        [n \in 1..Len(ks) |-> [parameter |-> d.baseParams[ks[n]][1], sensitivity |-> one(n)]])

\* payloads of a sensitivityAnalysis message: undefined, or an object whose
\* cashFlowGenerator may be missing
SensitivityData ==
  {None} \cup
  { Some([baseParams |-> BaseParams, variationPercentage |-> 50,
          targetMetric |-> m, generator |-> g]) :
      m \in {"irr", "equityMultiple"},
      g \in {None} \cup {Some(x) : x \in Generators} }

FewSensitivityData ==
  { d \in SensitivityData :
      d = None \/ Get(d).generator \in {None, Some("mixed")} }

HandleSensitivityAnalysis(Payloads) ==
  /\ Takes("sensitivityAnalysis")
  /\ \E data \in Payloads :
       LET id == Head(inbox).id
           req == Len(served) + 1
           started == StatusProgress(id, req, "sensitivityAnalysis", 0, "started")
           throws == data = None \/ Get(data).generator = None
           calls == IF throws THEN <<>>
                    ELSE IrrCalls(cache, SensitivitySeries(Get(Get(data).generator),
                                    Get(data).baseParams, Get(data).variationPercentage))
       IN  /\ Taken(data)
           /\ cache' = CacheAfter(cache, calls)
           /\ irrCalls' = CallLog(calls)
           /\ IF throws
                THEN outbox' = outbox \o
                       <<started, CaughtError(id, req, "sensitivityAnalysis")>>
                ELSE outbox' = outbox \o
                       <<started,
                         StatusProgress(id, req, "sensitivityAnalysis", 100, "completed"),
                         [Response("sensitivityResults", id, req) EXCEPT
                            !.data = SensitivityResults(Get(data), calls)]>>
  /\ UNCHANGED <<pc, run>>

(***************************************************************************)
(* The engine.                                                             *)
(***************************************************************************)
Next ==
  \/ \E type \in (MessageTypes \ {"cancel"}) \cup UnknownTypes : PostMessage(type)
  \/ \E id \in 1..MaxRequests : PostCancel(id)
  \/ HandleMonteCarlo(MonteCarloData)
  \/ MonteCarloChunk(SteadyReturns)
  \/ MonteCarloFinish
  \/ HandlePortfolioProjections(ProjectionData)
  \/ HandleSensitivityAnalysis(FewSensitivityData)
  \/ HandleCompareScenarios(FewScenarioData)
  \/ HandleClearCache
  \/ HandleCancel
  \/ HandleUnknown

Spec == Init /\ [][Next]_vars

(***************************************************************************)
(* memoizedIrr on its own: any caller, any arguments.  The worker's own    *)
(* calls all omit timePoints; the function takes them.                     *)
(***************************************************************************)
ArgumentPool ==
  { <<(<<-100, 110>>), None>>,
    <<(<<-100, 110>>), Some(<<>>)>>,
    <<(<<-100, 110>>), Some(<<0, 1>>)>>,
    <<(<<-100, 121>>), Some(<<0, 2>>)>>,
    <<(<<1, 2>>), Some(<<2>>)>>,
    <<(<<1>>), Some(<<2, 2>>)>> }

CallMemoizedIrr(cashFlows, timePoints) ==
  /\ pc = "idle"
  /\ LET call == memoizedIrr(cache, cashFlows, timePoints)
     IN  /\ cache' = call.cache
         /\ irrCalls' = CallLog(<<call>>)
  /\ UNCHANGED <<inbox, outbox, served, pc, run, nextId, posted, calc, loan>>

NextMemo ==
  \/ \E arguments \in ArgumentPool : CallMemoizedIrr(arguments[1], arguments[2])
  \/ PostMessage("clearCache")
  \/ HandleClearCache

SpecMemo == Init /\ [][NextMemo]_vars

(***************************************************************************)
(* The two analyses on their own, with every payload: any cash-flow        *)
(* generator, any array of scenarios.                                      *)
(***************************************************************************)
NextAnalysis ==
  \/ \E type \in {"sensitivityAnalysis", "compareScenarios"} : PostMessage(type)
  \/ HandleSensitivityAnalysis(SensitivityData)
  \/ HandleCompareScenarios(ScenarioData)

SpecAnalysis == Init /\ [][NextAnalysis]_vars

(***************************************************************************)
(* monteCarlo runs on their own, with the draws of Math.random free: each  *)
(* simulation's effective return is any of RandomReturns, whatever the     *)
(* request carries.                                                        *)
(***************************************************************************)
\* payloads of runs that reach the result: every count of simulations, the
\* default chunk size and every supplied one from 1 up
MonteCarloRuns ==
  { MonteCarloPayload(n, c, None, ValidParams) :
      n \in 0..MaxSims, c \in {None} \cup {Some(k) : k \in 1..MaxChunkSize} }

NextMonteCarlo ==
  \/ PostMessage("monteCarlo")
  \/ HandleMonteCarlo(MonteCarloRuns)
  \/ MonteCarloChunk(RandomReturns)
  \/ MonteCarloFinish

SpecMonteCarlo == Init /\ [][NextMonteCarlo]_vars

(***************************************************************************)
(* utils/calculations.ts called directly: the exported functions, any      *)
(* caller, any arguments.                                                  *)
(***************************************************************************)
\* The functions are pure: a behaviour makes one call, with any arguments.
\* the arguments of calculateIrr calls: <<cashFlows, timePoints>>.  They are
\* arguments whose Newton runs the fixed-point numbers follow: a derivative
\* that is zero in a run is zero in the program too, or belongs to a run
\* that ends in null either way
IrrArguments ==
  LET short == {<<>>, <<-100>>}
      pairs == {<<-100, b>> : b \in {0, 50, 110, 121}} \cup {<<0, 0>>, <<100, 0>>}
      triples == {<<-100, b, c>> : b \in {0, 60, 72}, c \in {-50, 0, 60, 72}}
      sameTime == {<<0, 110>>, <<100, 110>>}
      large == {<<-1000, 1101>>, <<-1000, 1300>>, <<-1000, 400>>}
      timePoints == {None, Some(<<>>), Some(<<0, 0>>), Some(<<0, 1>>),
                     Some(<<0, 2>>), Some(<<0, 1, 2>>)}
  IN  ((short \cup pairs \cup triples) \X timePoints)
        \cup (sameTime \X {Some(<<0, 0>>)}) \cup (large \X {None})

CalculateIrr ==
  /\ calc = NoCall
  /\ \E arguments \in IrrArguments :
       calc' = [fn |-> "calculateIrr", cashFlows |-> arguments[1],
                timePoints |-> arguments[2],
                result |-> calculateIrr(arguments[1], arguments[2])]
  /\ UNCHANGED <<inbox, outbox, served, pc, run, cache, nextId, posted, irrCalls, loan>>

\* Amounts are whole currency units, percentages whole percents.  A result
\* that is an amount times a percentage is held in hundredths of a unit; a
\* ratio is held as a fraction.
Amounts == {-50, 0, 40, 100, 150}
Percentages == {0, 20, 80, 100}

\* calculateCatchUpDistribution with the catch-up share of the investors
\* (lpCatchUp) left out of lpProfit
calculateCatchUpDistributionDroppingLpCatchUp(totalProfit, catchUpPercentage, lpPreferredReturn) ==
  LET lpProfit == JsMin(totalProfit, lpPreferredReturn)
      remainingProfit == totalProfit - lpProfit
      gpCatchUp == remainingProfit * catchUpPercentage
  IN  [lpProfit |-> 100 * lpProfit, gpProfit |-> gpCatchUp]

\* calculateCatchUpDistribution; lpProfit and gpProfit in hundredths
calculateCatchUpDistribution(totalProfit, catchUpPercentage, lpPreferredReturn) ==
  LET lpProfit == JsMin(totalProfit, lpPreferredReturn)
      remainingProfit == totalProfit - lpProfit
      gpCatchUp == remainingProfit * catchUpPercentage
      lpCatchUp == 100 * remainingProfit - gpCatchUp
  IN  [lpProfit |-> 100 * lpProfit + lpCatchUp, gpProfit |-> gpCatchUp]

CalculateCatchUpDistribution ==
  /\ calc = NoCall
  /\ \E totalProfit \in Amounts, catchUpPercentage \in Percentages,
        lpPreferredReturn \in Amounts :
       calc' = [fn |-> "calculateCatchUpDistribution", totalProfit |-> totalProfit,
                catchUpPercentage |-> catchUpPercentage,
                lpPreferredReturn |-> lpPreferredReturn,
                result |-> calculateCatchUpDistribution(
                             totalProfit, catchUpPercentage, lpPreferredReturn)]
  /\ UNCHANGED <<inbox, outbox, served, pc, run, cache, nextId, posted, irrCalls, loan>>

calculateRecyclingPayout(totalReturn, principal, managementFeePerDeal, performanceFee) ==
  LET profit == totalReturn - principal
      lpProfit == profit - managementFeePerDeal - performanceFee
      reinvestAmount == principal
  IN  [lpProfit |-> lpProfit, reinvestAmount |-> reinvestAmount]

CalculateRecyclingPayout ==
  /\ calc = NoCall
  /\ \E totalReturn \in Amounts, principal \in Amounts,
        managementFeePerDeal \in {0, 2}, performanceFee \in {0, 10} :
       calc' = [fn |-> "calculateRecyclingPayout", totalReturn |-> totalReturn,
                principal |-> principal, managementFeePerDeal |-> managementFeePerDeal,
                performanceFee |-> performanceFee,
                result |-> calculateRecyclingPayout(
                             totalReturn, principal, managementFeePerDeal, performanceFee)]
  /\ UNCHANGED <<inbox, outbox, served, pc, run, cache, nextId, posted, irrCalls, loan>>

\* calculatePerformanceFee without Math.max(0, ...)
calculatePerformanceFeeOnShortfall(totalReturn, principal, hurdleRate, performanceFeeRate, years) ==
  Fraction((totalReturn * Power(100, years) - principal * Power(100 + hurdleRate, years))
             * performanceFeeRate,
           Power(100, years + 1))

\* calculatePerformanceFee; hurdleRate and performanceFeeRate in percent,
\* years a whole number.  hurdleAmount is principal * (100 + hurdleRate)^years
\* over 100^years, and the fee a fraction of the same kind
calculatePerformanceFee(totalReturn, principal, hurdleRate, performanceFeeRate, years) ==
  LET hurdleAmount == principal * Power(100 + hurdleRate, years)
      difference == totalReturn * Power(100, years) - hurdleAmount
      excessReturn == IF difference > 0 THEN difference ELSE 0
  IN  Fraction(excessReturn * performanceFeeRate, Power(100, years + 1))

\* the fee rate is a rate a fund charges: 0 to 100 percent
CalculatePerformanceFee ==
  /\ calc = NoCall
  /\ \E totalReturn \in Amounts, principal \in {0, 40, 100}, hurdleRate \in {0, 8, 50},
        performanceFeeRate \in {0, 20, 100}, years \in {0, 1, 2} :
       calc' = [fn |-> "calculatePerformanceFee", totalReturn |-> totalReturn,
                principal |-> principal, hurdleRate |-> hurdleRate,
                performanceFeeRate |-> performanceFeeRate, years |-> years,
                result |-> calculatePerformanceFee(
                             totalReturn, principal, hurdleRate, performanceFeeRate, years)]
  /\ UNCHANGED <<inbox, outbox, served, pc, run, cache, nextId, posted, irrCalls, loan>>

\* Math.max of two fractions with positive denominators
FractionMax(a, b) == IF b[1] * a[2] > a[1] * b[2] THEN b ELSE a

\* the loop of calculateMaxDrawdown from index i (1-based)
RECURSIVE DrawdownFrom(_, _, _, _)
DrawdownFrom(values, i, peak, maxDrawdown) ==
  IF i > Len(values) THEN maxDrawdown
  ELSE IF values[i] > peak THEN DrawdownFrom(values, i + 1, values[i], maxDrawdown)
  ELSE LET drawdown == IF peak > 0 THEN Fraction(peak - values[i], peak) ELSE <<0, 1>>
       IN  DrawdownFrom(values, i + 1, peak, FractionMax(maxDrawdown, drawdown))

\* calculateMaxDrawdown, a fraction
calculateMaxDrawdown(values) ==
  IF Len(values) < 2 THEN <<0, 1>>
  ELSE DrawdownFrom(values, 2, values[1], <<0, 1>>)

\* value series of up to three values
ValueSeries ==
  LET v == {-50, 0, 40, 100}
  IN  {<<>>} \cup {<<a>> : a \in v} \cup {<<a, b>> : a, b \in v}
        \cup {<<a, b, c>> : a, b, c \in v}

CalculateMaxDrawdown ==
  /\ calc = NoCall
  /\ \E values \in ValueSeries :
       calc' = [fn |-> "calculateMaxDrawdown", values |-> values,
                result |-> calculateMaxDrawdown(values)]
  /\ UNCHANGED <<inbox, outbox, served, pc, run, cache, nextId, posted, irrCalls, loan>>

\* the caller's array after calculatePercentile(values, ...): the function
\* sorts a copy, [...values]
ValuesAfterPercentile(values) == values

\* two calls on the same array, with percentiles p <= q
CalculatePercentile ==
  /\ calc = NoCall
  /\ \E values \in ValueSeries \ {<<>>}, p \in {0, 10, 25, 50, 75, 100},
        q \in {0, 10, 25, 50, 75, 100} :
       /\ p <= q
       /\ calc' = [fn |-> "calculatePercentile", values |-> values, p |-> p, q |-> q,
                   atP |-> calculatePercentile(values, p),
                   atQ |-> calculatePercentile(values, q),
                   valuesAfter |-> ValuesAfterPercentile(values)]
  /\ UNCHANGED <<inbox, outbox, served, pc, run, cache, nextId, posted, irrCalls, loan>>

\* cashFlows.map(cf => cf * k)
Scaled(cashFlows, k) == [j \in 1..Len(cashFlows) |-> k * cashFlows[j]]

\* the equity multiple the worker reports for a series and for the same
\* series with every cash flow multiplied by k
ReportEquityMultiple ==
  /\ calc = NoCall
  /\ \E arguments \in IrrArguments, k \in {1, 2, 3} :
       /\ Len(arguments[1]) >= 1
       /\ calc' = [fn |-> "equityMultiple", cashFlows |-> arguments[1], k |-> k,
                   result |-> EquityMultipleOf(arguments[1]),
                   scaled |-> EquityMultipleOf(Scaled(arguments[1], k))]
  /\ UNCHANGED <<inbox, outbox, served, pc, run, cache, nextId, posted, irrCalls, loan>>

\* calculateSharpeRatio without the test for zero volatility: the division
\* yields an infinity of the sign of the numerator, or NaN
calculateSharpeRatioUnguarded(expectedReturn, riskFreeRate, volatility) ==
  Fraction(expectedReturn - riskFreeRate, volatility)

\* calculateSharpeRatio, a fraction; <<1, 0>> is Infinity
calculateSharpeRatio(expectedReturn, riskFreeRate, volatility) ==
  IF volatility = 0 THEN <<1, 0>>
  ELSE Fraction(expectedReturn - riskFreeRate, volatility)

CalculateSharpeRatio ==
  /\ calc = NoCall
  /\ \E expectedReturn \in {-5, 0, 3, 12}, riskFreeRate \in {0, 3},
        volatility \in {0, 1, 15} :
       calc' = [fn |-> "calculateSharpeRatio", expectedReturn |-> expectedReturn,
                riskFreeRate |-> riskFreeRate, volatility |-> volatility,
                result |-> calculateSharpeRatio(expectedReturn, riskFreeRate, volatility)]
  /\ UNCHANGED <<inbox, outbox, served, pc, run, cache, nextId, posted, irrCalls, loan>>

\* Math.min of two fractions with positive denominators
FractionMin(a, b) == IF b[1] * a[2] < a[1] * b[2] THEN b ELSE a

\* calculateDefaultProbability without Math.min(..., defaultRate / 100 / 6)
calculateDefaultProbabilityUncapped(defaultRate, monthsSinceOrigination, avgTermLength) ==
  Fraction(defaultRate * (avgTermLength * 12 + monthsSinceOrigination),
           1200 * avgTermLength * 12)

\* calculateDefaultProbability, a fraction; defaultRate in percent a year,
\* avgTermLength in years
calculateDefaultProbability(defaultRate, monthsSinceOrigination, avgTermLength) ==
  LET monthlyBaseRate == Fraction(defaultRate, 100 * 12)
      ageAdjustment ==
        Fraction(avgTermLength * 12 + monthsSinceOrigination, avgTermLength * 12)
  IN  FractionMin(Fraction(monthlyBaseRate[1] * ageAdjustment[1],
                           monthlyBaseRate[2] * ageAdjustment[2]),
                  Fraction(defaultRate, 100 * 6))

\* ages of a loan in months, up to beyond the longest term drawn
LoanAges == {0, 6, 12, 18, 24, 30}

\* two calls for the same loan, at the ages months <= later
CalculateDefaultProbability ==
  /\ calc = NoCall
  /\ \E defaultRate \in {0, 2, 5}, avgTermLength \in {1, 2},
        months \in LoanAges, later \in LoanAges :
       /\ months <= later
       /\ calc' = [fn |-> "calculateDefaultProbability", defaultRate |-> defaultRate,
                   avgTermLength |-> avgTermLength, months |-> months, later |-> later,
                   atMonths |-> calculateDefaultProbability(
                                  defaultRate, months, avgTermLength),
                   atLater |-> calculateDefaultProbability(
                                 defaultRate, later, avgTermLength)]
  /\ UNCHANGED <<inbox, outbox, served, pc, run, cache, nextId, posted, irrCalls, loan>>

\* calculateVaR(returns, confidenceLevel): the element of the sorted copy at
\* Math.floor((1 - confidenceLevel / 100) * length); reading an array past
\* its end yields undefined, which is None
calculateVaR(returns, confidenceLevel) ==
  LET sortedReturns == SortAscending(returns)
      index == ((100 - confidenceLevel) * Len(sortedReturns)) \div 100
  IN  IF index + 1 \in 1..Len(sortedReturns) THEN Some(sortedReturns[index + 1])
      ELSE None

CalculateVaR ==
  /\ calc = NoCall
  /\ \E returns \in ValueSeries \ {<<>>}, confidenceLevel \in {0, 5, 50, 75, 95, 100} :
       calc' = [fn |-> "calculateVaR", returns |-> returns,
                confidenceLevel |-> confidenceLevel,
                result |-> calculateVaR(returns, confidenceLevel)]
  /\ UNCHANGED <<inbox, outbox, served, pc, run, cache, nextId, posted, irrCalls, loan>>

NextCalc ==
  \/ CalculateDefaultProbability
  \/ CalculateVaR
  \/ CalculateIrr
  \/ CalculateCatchUpDistribution
  \/ CalculateRecyclingPayout
  \/ CalculatePerformanceFee
  \/ CalculateMaxDrawdown
  \/ CalculatePercentile
  \/ ReportEquityMultiple
  \/ CalculateSharpeRatio

SpecCalc == Init /\ [][NextCalc]_vars

(***************************************************************************)
(* The cash-flow simulator's loan life cycle.  The simulator's loop over   *)
(* loans and months is described in the specification (section 4.4) and    *)
(* named in simulation_engine/calculationsreadme.md ("Process each loan");  *)
(* the three monthly probabilities it draws against are                    *)
(* utils/calculations.ts.  A draw against probability p may fire when      *)
(* p > 0 and may fail to fire when p < 1.                                  *)
(***************************************************************************)
LoanTermYears == 1    \* avgTermLength of the loan followed

\* the months of the simulation: up to two months beyond the term
LastMonth == LoanTermYears * 12 + 2

\* calculateScheduledExitProbability, a fraction
calculateScheduledExitProbability(monthsSinceOrigination, avgTermLength) ==
  IF monthsSinceOrigination >= avgTermLength * 12 - 12 THEN Fraction(1, 12)
  ELSE Fraction(1, avgTermLength * 12 * 10)

\* calculateEarlyExitProbability is (earlyRepaymentRate / 100) times a
\* positive exponential over 12: it is above 0 exactly when the rate is
EarlyExitPossible(earlyRepaymentRate) == earlyRepaymentRate > 0

OutcomeStates == {"defaulted", "earlyExit", "scheduledExit", "matured"}

\* the events of an active month and the outcome state each leads to
Events == {"default", "earlyExit", "scheduledExit", "maturity"}

OutcomeOf(event) ==
  CASE event = "default" -> "defaulted"
    [] event = "earlyExit" -> "earlyExit"
    [] event = "scheduledExit" -> "scheduledExit"
    [] event = "maturity" -> "matured"

\* the three draws of a month can fire when their probability is above 0;
\* maturity-at-term is no draw: it fires from the term on
CanFire(l, event) ==
  CASE event = "default" ->
         calculateDefaultProbability(l.defaultRate, l.month, l.avgTermLength)[1] > 0
    [] event = "earlyExit" -> EarlyExitPossible(l.earlyRepaymentRate)
    [] event = "scheduledExit" ->
         calculateScheduledExitProbability(l.month, l.avgTermLength)[1] > 0
    [] event = "maturity" -> l.month >= l.avgTermLength * 12

\* the checks of a month with early exit looked at before default
FirstToFireEarlyExitFirst(fired) ==
  IF "earlyExit" \in fired THEN "earlyExit"
  ELSE IF "default" \in fired THEN "default"
  ELSE IF "scheduledExit" \in fired THEN "scheduledExit"
  ELSE "maturity"

\* the checks of a month, in their fixed order: default, early exit,
\* scheduled exit, maturity-at-term
FirstToFire(fired) ==
  IF "default" \in fired THEN "default"
  ELSE IF "earlyExit" \in fired THEN "earlyExit"
  ELSE IF "scheduledExit" \in fired THEN "scheduledExit"
  ELSE "maturity"

\* a loan is originated: active, at month 0
OriginateLoan ==
  /\ loan = NoLoan
  /\ \E defaultRate \in {0, 5}, earlyRepaymentRate \in {0, 10} :
       loan' = [state |-> "active", month |-> 0, defaultRate |-> defaultRate,
                earlyRepaymentRate |-> earlyRepaymentRate,
                avgTermLength |-> LoanTermYears, fired |-> {}, cashFlows |-> <<>>]
  /\ UNCHANGED <<inbox, outbox, served, pc, run, cache, nextId, posted, irrCalls, calc>>

\* one month of an active loan: the events that fire; the first of them in
\* the order of the checks moves the loan to its outcome state and emits the
\* terminal cash flow of that month; with none the loan stays active
ActiveMonth ==
  /\ loan.state = "active"
  /\ \E fired \in SUBSET Events :
       /\ \A event \in fired : CanFire(loan, event)
       /\ "maturity" \in fired <=> CanFire(loan, "maturity")
       /\ IF fired = {}
            THEN loan' = [loan EXCEPT !.month = @ + 1, !.fired = {}]
            ELSE loan' = [loan EXCEPT
                   !.state = OutcomeOf(FirstToFire(fired)),
                   !.fired = fired,
                   !.cashFlows = Append(@, [month |-> loan.month,
                                            outcome |-> OutcomeOf(FirstToFire(fired))])]
  /\ UNCHANGED <<inbox, outbox, served, pc, run, cache, nextId, posted, irrCalls, calc>>

\* a month of the simulation after the loan has left active: the loan is
\* not processed any more
LaterMonth ==
  /\ loan.state \in OutcomeStates
  /\ loan.month < LastMonth
  /\ loan' = [loan EXCEPT !.month = @ + 1]
  /\ UNCHANGED <<inbox, outbox, served, pc, run, cache, nextId, posted, irrCalls, calc>>

NextLoan ==
  \/ OriginateLoan
  \/ ActiveMonth
  \/ LaterMonth

SpecLoan == Init /\ [][NextLoan]_vars

(***************************************************************************)
(* Properties.                                                             *)
(***************************************************************************)
\* positions of the outbox
Posted == 1..Len(outbox)

\* the handler of served[k] has returned
Returned(k) == k < Len(served) \/ pc = "idle"

\* the terminal responses carrying correlation id i
TerminalsOf(i) == { j \in Posted : outbox[j].id = i /\ outbox[j].type \in TerminalTypes }

\* the per-chunk progress messages of request k, in the order posted
ChunkReportsOf(k) ==
  SelectSeq(outbox, LAMBDA r : r.req = k /\ r.type = "progress" /\ r.currentChunk # Undefined)

\* C1: every request the engine has served has exactly one terminal response
\* (a result, error or cancelled) carrying its correlation id, also when a
\* cancel names that id.
C1_ExactlyOneTerminal ==
  \A k \in 1..Len(served) :
    (served[k].type # "cancel" /\ Returned(k))
      => Cardinality(TerminalsOf(served[k].id)) = 1

\* C2: when a cancel for a multi-chunk monteCarlo run is posted after the
\* run's first chunk and before its last one, no monteCarloResults response
\* carries that id, and once the cancel is handled the last response carrying
\* the id is 'cancelled'.
C2_CancelledRunHasNoResults ==
  /\ \A k \in 1..Len(inbox) :
       inbox[k].midRun =>
         \A j \in Posted :
           ~(outbox[j].id = inbox[k].id /\ outbox[j].type = "monteCarloResults")
  /\ \A k \in 1..Len(served) :
       served[k].midRun =>
         /\ \A j \in Posted :
              ~(outbox[j].id = served[k].id /\ outbox[j].type = "monteCarloResults")
         /\ \E j \in Posted :
              /\ outbox[j].id = served[k].id
              /\ outbox[j].type = "cancelled"
              /\ \A l \in Posted : l > j => outbox[l].id # served[k].id

\* C3: once a cancel has been posted for the run in the chunk loop, the chunk
\* in progress at that moment is the last chunk of the run to finish.
C3_NoChunkAfterCancel ==
  \A k \in 1..Len(inbox) :
    (pc = "mc" /\ inbox[k].type = "cancel" /\ inbox[k].id = run.id
       /\ inbox[k].atChunk # Undefined)
      => run.chunk <= inbox[k].atChunk + 1

\* C4: every response carries the id of the request whose handler posted it.
C4_ResponsesCarryRequestId ==
  \A j \in Posted : outbox[j].id = served[outbox[j].req].id

\* C5: every error response has a message and names the failing task.
C5_ErrorsNameTask ==
  \A j \in Posted :
    outbox[j].type = "error" => (outbox[j].hasMessage /\ outbox[j].task # UndefinedStr)

\* C6: after the error response of a fault caught while serving a request, no
\* further response carries that request's id.
C6_NothingAfterCaughtError ==
  \A j \in Posted :
    (outbox[j].type = "error" /\ outbox[j].task # UndefinedStr)
      => \A l \in Posted : l > j => outbox[l].id # outbox[j].id

\* the loop controls of a served monteCarlo request with a payload
SimulationsOf(q) == Get(q.data).numSimulations
ChunkSizeOf(q) ==
  IF IsSome(Get(q.data).chunkSize) THEN Get(Get(q.data).chunkSize) ELSE DefaultChunkSize
Reports(q) == q.type = "monteCarlo" /\ q.data # None /\ Get(q.data).reportProgress = None

\* t is ceil(n / size): the least count of chunks of that size that holds n
\* items; with a size of 0 the quotient is infinite
IsCeiling(t, n, size) ==
  IF size = 0 THEN t = Infinity ELSE t * size >= n /\ (t - 1) * size < n

\* the chunks a returned run has gone through: none when it threw
ChunksOfReturned(k) ==
  IF \E j \in Posted : outbox[j].req = k /\ outbox[j].type = "error" THEN 0
  ELSE IF ChunkSizeOf(served[k]) < 1 THEN 0
  ELSE CHOOSE t \in 0..SimulationsOf(served[k]) :
         IsCeiling(t, SimulationsOf(served[k]), ChunkSizeOf(served[k]))

\* C7: a monteCarlo run of N simulations with progress reporting posts one
\* progress message per finished chunk, in chunk order, and the k-th one has
\* currentChunk = k, totalChunks = ceil(N / chunkSize),
\* processedSimulations = min(k * chunkSize, N) and totalSimulations = N.
C7_ChunkProgressFields ==
  \A k \in 1..Len(served) :
    Reports(served[k]) =>
      LET n == SimulationsOf(served[k])
          size == ChunkSizeOf(served[k])
          reports == ChunkReportsOf(k)
      IN  /\ \A j \in 1..Len(reports) :
               /\ reports[j].currentChunk = j
               /\ IsCeiling(reports[j].totalChunks, n, size)
               /\ reports[j].processedSimulations = (IF j * size < n THEN j * size ELSE n)
               /\ reports[j].totalSimulations = n
          /\ (k = Len(served) /\ pc = "mc") => Len(reports) = run.chunk
          /\ Returned(k) => Len(reports) = ChunksOfReturned(k)

\* a returned run of several chunks whose last chunk was a partial one
C7_Witness ==
  \E k \in 1..Len(served) :
    /\ Reports(served[k])
    /\ Returned(k)
    /\ Len(ChunkReportsOf(k)) >= 2
    /\ LET last == ChunkReportsOf(k)[Len(ChunkReportsOf(k))]
       IN  /\ last.processedSimulations < last.currentChunk * ChunkSizeOf(served[k])
           /\ last.currentChunk = last.totalChunks

\* C8: after clearCache is handled the cache is empty and exactly one
\* cacheCleared response carries the request's id; the first memoized IRR
\* call of the next handler computes its value instead of taking it from the
\* cache.
C8_ClearCacheEmptiesCache ==
  /\ [](\A k \in 1..Len(served) :
          served[k].type = "clearCache" =>
            /\ Cardinality({ j \in Posted : /\ outbox[j].type = "cacheCleared"
                                            /\ outbox[j].id = served[k].id }) = 1
            /\ k = Len(served) => DOMAIN cache = {})
  /\ [][(/\ served # <<>>
         /\ served[Len(served)].type = "clearCache"
         /\ Len(served') > Len(served)
         /\ irrCalls' # <<>>)
          => ~irrCalls'[1].hit]_vars

\* a handler that stored IRR entries, then clearCache, then the same payload
\* again, whose every call computed its value anew
C8_Witness ==
  /\ Len(served) >= 3
  /\ served[Len(served) - 1].type = "clearCache"
  /\ served[Len(served) - 2].type = served[Len(served)].type
  /\ served[Len(served) - 2].data = served[Len(served)].data
  /\ irrCalls # <<>>
  /\ ~irrCalls[1].hit
  /\ irrCalls[1].key \in DOMAIN cache

\* C9: every memoizedIrr(cashFlows, timePoints) call returns the value of
\* calculateIrr(cashFlows, timePoints).
C9_MemoizationTransparent ==
  \A n \in 1..Len(irrCalls) :
    irrCalls[n].value = calculateIrr(irrCalls[n].cashFlows, irrCalls[n].timePoints)

\* the documented constraints on the parameters of a monteCarlo request:
\* allocations sum to 100, percentages lie in 0..100, counts and amounts
\* are positive
RECURSIVE Sum(_)
Sum(a) == IF a = <<>> THEN 0 ELSE Head(a) + Sum(Tail(a))

ViolatesConstraint(d) ==
  \/ Sum(d.params.zoneAllocation) # 100
  \/ d.params.interestRate \notin 0..100
  \/ d.numSimulations <= 0
  \/ d.params.initialInvestment <= 0
  \/ d.params.timeHorizon <= 0

\* C10: a monteCarlo request whose parameters violate a constraint gets an
\* error and nothing else: no progress, no result, and no simulation is run.
C10_InvalidRequestRejected ==
  /\ \A j \in Posted :
       LET q == served[outbox[j].req]
       IN  (q.type = "monteCarlo" /\ q.data # None /\ ViolatesConstraint(Get(q.data)))
             => outbox[j].type = "error"
  /\ (pc = "mc" /\ ViolatesConstraint(Get(served[Len(served)].data)))
       => run.simulated = <<>>

(***************************************************************************)
(* The calculation library.                                                *)
(***************************************************************************)
\* the times calculateIrr uses for a call; <<>> when the call returns before
\* the loop
TimesOf(call) ==
  IF IsSome(call.timePoints) THEN Get(call.timePoints)
  ELSE [j \in 1..Len(call.cashFlows) |-> j - 1]

EntersLoop(call) ==
  Len(call.cashFlows) >= 2 /\ Len(call.cashFlows) = Len(TimesOf(call))

\* C11: whenever calculateIrr returns a number r, the net present value of
\* the series discounted at r is within the tolerance of zero, on the return
\* of guess (|npv| < tolerance) and on the return of newGuess (Newton step
\* below tolerance) alike.
C11_IrrZeroesNpv ==
  (calc.fn = "calculateIrr" /\ IsSome(calc.result)) =>
     Abs(NpvAt(calc.cashFlows, TimesOf(calc), Scale + Get(calc.result), 1)) < tolerance

\* C12: calculateIrr returns null when there are fewer than two cash flows,
\* when the numbers of cash flows and of time points differ, when a Newton
\* iterate falls below -1 and when the iterations run out; in every other
\* case it returns a number.
C12_IrrNullOrNumber ==
  calc.fn = "calculateIrr" =>
    /\ Len(calc.cashFlows) < 2 => calc.result = None
    /\ Len(calc.cashFlows) # Len(TimesOf(calc)) => calc.result = None
    /\ EntersLoop(calc) =>
         LET exit == NewtonExit(calc.cashFlows, TimesOf(calc), InitialGuess, 0)
         IN  /\ exit \in {"below", "exhausted"} => calc.result = None
             /\ exit \in {"npv", "step"} =>
                   IsSome(calc.result) /\ Get(calc.result) \in Int

C12_Witness ==
  /\ calc.fn = "calculateIrr"
  /\ EntersLoop(calc)
  /\ NewtonExit(calc.cashFlows, TimesOf(calc), InitialGuess, 0) = "below"
  /\ calc.result = None

\* C14: a catch-up distribution gives investors and manager together the
\* whole profit, and a recycling payout splits the whole return into the
\* investors' profit, the two fees and the amount reinvested.
C14_NoLeakage ==
  /\ calc.fn = "calculateCatchUpDistribution" =>
        calc.result.lpProfit + calc.result.gpProfit = 100 * calc.totalProfit
  /\ calc.fn = "calculateRecyclingPayout" =>
        calc.result.lpProfit + calc.managementFeePerDeal + calc.performanceFee
          + calc.result.reinvestAmount = calc.totalReturn

C14_Witness ==
  /\ calc.fn = "calculateCatchUpDistribution"
  /\ calc.totalProfit > calc.lpPreferredReturn
  /\ calc.lpPreferredReturn > 0
  /\ calc.result.gpProfit > 0
  /\ calc.result.lpProfit > 100 * calc.lpPreferredReturn

NonDecreasing(values) ==
  \A i \in 1..(Len(values) - 1) : values[i] <= values[i + 1]

\* C16: calculateMaxDrawdown returns a value between 0 and 1 for every
\* series, and 0 for every non-decreasing series.
C16_DrawdownInUnitInterval ==
  calc.fn = "calculateMaxDrawdown" =>
    /\ calc.result[1] >= 0
    /\ calc.result[1] <= calc.result[2]
    /\ NonDecreasing(calc.values) => calc.result = <<0, 1>>

Minimum(values) ==
  CHOOSE v \in {values[i] : i \in 1..Len(values)} :
    \A i \in 1..Len(values) : v <= values[i]

Maximum(values) ==
  CHOOSE v \in {values[i] : i \in 1..Len(values)} :
    \A i \in 1..Len(values) : v >= values[i]

\* C17: for a non-empty array, percentile 0 is the minimum, percentile 100
\* the maximum, the percentile does not decrease with its percentile
\* argument, and the array passed in is as it was.
C17_PercentileBounds ==
  calc.fn = "calculatePercentile" =>
    /\ calc.p = 0 => calc.atP = 100 * Minimum(calc.values)
    /\ calc.q = 100 => calc.atQ = 100 * Maximum(calc.values)
    /\ calc.atP <= calc.atQ
    /\ calc.valuesAfter = calc.values

C17_Witness ==
  /\ calc.fn = "calculatePercentile"
  /\ Len(calc.values) = 3
  /\ calc.values[1] > calc.values[2]
  /\ calc.values[3] > calc.values[1]
  /\ calc.p = 10 /\ calc.q = 25
  /\ calc.atP < calc.atQ

\* C19 as stated: multiplying every cash flow of a series by k > 0
\* multiplies the equity multiple reported for the series by k.
C19_MultipleScalesLinearly ==
  calc.fn = "equityMultiple" =>
    Fraction(calc.scaled[1], calc.scaled[2])
      = Fraction(calc.k * calc.result[1], calc.result[2])

\* C19 (amended): multiplying every cash flow of a series by k > 0 leaves
\* the equity multiple reported for the series unchanged.
C19_MultipleScaleInvariant ==
  calc.fn = "equityMultiple" =>
    Fraction(calc.scaled[1], calc.scaled[2])
      = Fraction(calc.result[1], calc.result[2])

C19_Witness ==
  /\ calc.fn = "equityMultiple"
  /\ calc.k = 3
  /\ Len(calc.cashFlows) = 3
  /\ calc.result[1] > calc.result[2]
  /\ calc.result[2] > 0

\* C20: calculateSharpeRatio returns Infinity exactly when volatility is 0,
\* whatever the sign of expectedReturn - riskFreeRate, and
\* (expectedReturn - riskFreeRate) / volatility for every other volatility.
C20_SharpeSentinel ==
  calc.fn = "calculateSharpeRatio" =>
    /\ calc.result = <<1, 0>> <=> calc.volatility = 0
    /\ calc.volatility # 0 =>
          /\ calc.result[2] > 0
          /\ calc.result[1] * calc.volatility
               = (calc.expectedReturn - calc.riskFreeRate) * calc.result[2]

C20_Witness ==
  /\ calc.fn = "calculateSharpeRatio"
  /\ calc.volatility = 0
  /\ calc.expectedReturn < calc.riskFreeRate
  /\ calc.result = <<1, 0>>

\* a < b on fractions with positive denominators
FractionLess(a, b) == a[1] * b[2] < b[1] * a[2]

\* C23: calculateDefaultProbability is the monthly base rate (annual rate /
\* 100 / 12) times 1 + months / (avgTermLength * 12), capped at twice the
\* base rate: the base rate at month 0, non-decreasing in months, never above
\* twice the base rate, and the cap from month avgTermLength * 12 on.
C23_DefaultProbabilityCapped ==
  calc.fn = "calculateDefaultProbability" =>
    LET base == Fraction(calc.defaultRate, 1200)
        cap == Fraction(2 * calc.defaultRate, 1200)
        term == calc.avgTermLength * 12
        aged == Fraction(calc.defaultRate * (term + calc.months), 1200 * term)
    IN  /\ calc.atMonths = (IF FractionLess(cap, aged) THEN cap ELSE aged)
        /\ calc.months = 0 => calc.atMonths = base
        /\ ~FractionLess(calc.atLater, calc.atMonths)
        /\ ~FractionLess(cap, calc.atMonths) /\ ~FractionLess(cap, calc.atLater)
        /\ calc.later >= term => calc.atLater = cap

\* a loan asked about before its term, where the aging factor applies, and
\* again beyond its term, where the cap does
C23_Witness ==
  /\ calc.fn = "calculateDefaultProbability"
  /\ calc.defaultRate > 0
  /\ calc.months > 0
  /\ calc.months < calc.avgTermLength * 12
  /\ calc.later > calc.avgTermLength * 12
  /\ FractionLess(Fraction(calc.defaultRate, 1200), calc.atMonths)
  /\ FractionLess(calc.atMonths, calc.atLater)
  /\ calc.atLater = Fraction(2 * calc.defaultRate, 1200)

\* the elements of an array
Elements(values) == { values[i] : i \in 1..Len(values) }

\* the percentile falls on an element: its index is a whole number
OnElement(values, percentile) == (percentile * (Len(values) - 1)) % 100 = 0

\* C24: for a non-empty sample and a confidence level c from 0 to 100,
\* calculateVaR returns an element of the sample, and the value of
\* calculatePercentile(returns, 100 - c) whenever that percentile falls on
\* an element.
C24_VaRIsSamplePercentile ==
  calc.fn = "calculateVaR" =>
    /\ IsSome(calc.result)
    /\ Get(calc.result) \in Elements(calc.returns)
    /\ OnElement(calc.returns, 100 - calc.confidenceLevel) =>
         100 * Get(calc.result)
           = calculatePercentile(calc.returns, 100 - calc.confidenceLevel)

(***************************************************************************)
(* The analyses.                                                           *)
(***************************************************************************)
\* the payload of the request a response answers
PayloadOf(r) == Get(served[r.req].data)

\* the position in the call order of runSensitivityAnalysis of the varied
\* entry called name
VariedIndex(d, name) ==
  CHOOSE n \in 1..Len(VariedEntries(d.baseParams)) :
    d.baseParams[VariedEntries(d.baseParams)[n]][1] = name

SeriesOf(d) == SensitivitySeries(Get(d.generator), d.baseParams, d.variationPercentage)

\* C13: a scenario whose cash flows have no IRR is reported with irr null,
\* and a sensitivityAnalysis with target metric 'irr' reports no sensitivity
\* number for a parameter whose base, high or low case has no IRR.
C13_CallersHandleNoSolution ==
  \A i \in 1..Len(outbox) :
    LET r == outbox[i] IN
      /\ r.type = "comparisonResults" =>
            \A k \in 1..Len(r.data) :
              calculateIrr(r.data[k].cashFlows, None) = None => r.data[k].irr = None
      /\ (r.type = "sensitivityResults" /\ PayloadOf(r).targetMetric = "irr") =>
            \A k \in 1..Len(r.data) :
              LET n == VariedIndex(PayloadOf(r), r.data[k].parameter)
                  series == SeriesOf(PayloadOf(r))
              IN  (\E j \in {1, 2 * n, 2 * n + 1} : calculateIrr(series[j], None) = None)
                    => r.data[k].sensitivity = None

\* the sum of the positive cash flows over the sum of the absolute values of
\* the negative ones, as a fraction
RECURSIVE SumNegative(_)
SumNegative(flows) ==
  IF flows = <<>> THEN 0
  ELSE (IF Head(flows) < 0 THEN -Head(flows) ELSE 0) + SumNegative(Tail(flows))

PositiveOverNegative(cashFlows) == <<SumPositive(cashFlows), SumNegative(cashFlows)>>

\* C18: the equity multiple reported for a series is the sum of its positive
\* cash flows divided by the sum of the absolute values of its negative
\* ones: in every comparisonResults entry, and in every sensitivity that
\* runSensitivityAnalysis derives from equity multiples.
C18_EquityMultipleOfAllFlows ==
  \A i \in 1..Len(outbox) :
    LET r == outbox[i] IN
      /\ r.type = "comparisonResults" =>
            \A k \in 1..Len(r.data) :
              Fraction(r.data[k].equityMultiple[1], r.data[k].equityMultiple[2])
                = Fraction(SumPositive(r.data[k].cashFlows), SumNegative(r.data[k].cashFlows))
      /\ (r.type = "sensitivityResults" /\ PayloadOf(r).targetMetric = "equityMultiple") =>
            \A k \in 1..Len(r.data) :
              LET n == VariedIndex(PayloadOf(r), r.data[k].parameter)
                  series == SeriesOf(PayloadOf(r))
              IN  r.data[k].sensitivity =
                    MultipleSensitivity(PositiveOverNegative(series[2 * n]),
                                        PositiveOverNegative(series[2 * n + 1]),
                                        PositiveOverNegative(series[1]),
                                        PayloadOf(r).variationPercentage)


(***************************************************************************)
(* The monteCarlo run.                                                     *)
(***************************************************************************)
\* the monteCarloResults responses posted so far
ResultsPosted == { j \in Posted : outbox[j].type = "monteCarloResults" }

\* C21: two monteCarlo runs whose requests carry the same payload (every
\* input a request has, loop controls and parameters alike) post the same
\* results.
C21_SameInputsSameResults ==
  \A i \in ResultsPosted : \A j \in ResultsPosted :
    served[outbox[i].req].data = served[outbox[j].req].data
      => outbox[i].data = outbox[j].data

\* C22: the monteCarloResults of a run of N simulations hold N value series,
\* one for every simulation index, each of timeHorizon + 1 values of which
\* the first is initialInvestment.
C22_ResultsComplete ==
  \A j \in ResultsPosted :
    LET d == PayloadOf(outbox[j])
        series == outbox[j].data
    IN  /\ Len(series) = d.numSimulations
        /\ \A i \in 1..Len(series) :
             /\ Len(series[i]) = d.params.timeHorizon + 1
             /\ series[i][1] = d.params.initialInvestment

\* the indices from .. to - 1 in ascending order
Ascending(from, to) == [k \in 1..(to - from) |-> from + k - 1]

\* C26: with N simulations and a chunk size s >= 1 (1000 when the request
\* supplies none) the loop has ceil(N / s) chunks; after k chunks exactly the
\* indices 0 .. min(k * s, N) - 1 have been simulated, each once and in
\* ascending order, so chunk k covers k * s .. min((k + 1) * s, N) - 1 and
\* every chunk but the last has s iterations; when the loop ends every index
\* 0 .. N - 1 has been simulated once.
C26_ChunksPartitionIndices ==
  (pc = "mc" /\ ChunkSizeOf(served[Len(served)]) >= 1) =>
    LET d == Get(served[Len(served)].data)
        n == d.numSimulations
        s == run.chunkSize
        done == IF run.chunk * s < n THEN run.chunk * s ELSE n
    IN  /\ s = (IF IsSome(d.chunkSize) THEN Get(d.chunkSize) ELSE 1000)
        /\ IsCeiling(run.numChunks, n, s)
        /\ run.chunk <= run.numChunks
        /\ run.simulated = Ascending(0, done)
        /\ ~MoreChunks(run) => run.simulated = Ascending(0, n)

\* a run of three simulations in chunks of two, after its second and last
\* chunk, which held one simulation
C26_Witness ==
  /\ pc = "mc"
  /\ Get(served[Len(served)].data).chunkSize = Some(2)
  /\ run.numSimulations = 3
  /\ run.numChunks = 2
  /\ run.chunk = 2
  /\ run.simulated = <<0, 1, 2>>


\* C28: the chunk loop of a monteCarlo run is finite, whatever chunkSize the
\* request supplies: the number of chunks it is to go through is a finite
\* number, and it has gone through no more chunks than there are
\* simulations.
C28_ChunkLoopFinite ==
  pc = "mc" => (run.numChunks # Infinity /\ run.chunk <= run.numSimulations)

\* C29: in a monteCarlo run every progress percentage is a whole number from
\* 0 to 100; it is 0 in the 'started' notification, does not decrease from
\* one chunk notification to the next, and is 100 in the notification of the
\* last chunk, where processedSimulations is totalSimulations; currentChunk
\* is never above totalChunks.
C29_ProgressPercentage ==
  /\ \A j \in Posted :
       (outbox[j].type = "progress" /\ outbox[j].task = "monteCarlo") =>
         /\ outbox[j].progress \in 0..100
         /\ outbox[j].status = "started" => outbox[j].progress = 0
         /\ outbox[j].currentChunk # Undefined =>
              /\ outbox[j].currentChunk <= outbox[j].totalChunks
              /\ outbox[j].currentChunk = outbox[j].totalChunks =>
                   /\ outbox[j].progress = 100
                   /\ outbox[j].processedSimulations = outbox[j].totalSimulations
  /\ \A k \in 1..Len(served) :
       LET reports == ChunkReportsOf(k)
       IN  /\ \A j \in 1..(Len(reports) - 1) :
                reports[j].progress <= reports[j + 1].progress
           /\ (Returned(k) /\ reports # <<>>) =>
                reports[Len(reports)].progress = 100

\* a returned run whose chunk notifications went from 50 to 100
C29_Witness ==
  \E k \in 1..Len(served) :
    /\ Returned(k)
    /\ Len(ChunkReportsOf(k)) = 2
    /\ ChunkReportsOf(k)[1].progress = 50
    /\ ChunkReportsOf(k)[2].progress = 100
    /\ ChunkReportsOf(k)[2].processedSimulations = 3

(***************************************************************************)
(* The cache and the order of the responses.                               *)
(***************************************************************************)
\* the calls of a handler that did not find their key in the cache
Misses(calls) == { n \in 1..Len(calls) : ~calls[n].hit }

\* C27: the cache is changed by nothing but a memoized IRR call that misses,
\* which adds one entry, and clearCache, which removes every entry:
\* monteCarlo, portfolioProjections, cancel and unrecognised requests leave
\* it as it was, and so does a call that hits.
C27_CacheFrame ==
  [][IF Len(served') > Len(served)
       THEN LET type == served'[Len(served')].type
                misses == Misses(irrCalls')
            IN  /\ type = "clearCache" => DOMAIN cache' = {}
                /\ type \in {"monteCarlo", "portfolioProjections", "cancel"} \cup UnknownTypes
                     => (cache' = cache /\ irrCalls' = <<>>)
                /\ type \in {"sensitivityAnalysis", "compareScenarios"} =>
                     /\ DOMAIN cache' = DOMAIN cache \cup { irrCalls'[n].key : n \in misses }
                     /\ Cardinality(DOMAIN cache')
                          = Cardinality(DOMAIN cache) + Cardinality(misses)
                     /\ \A key \in DOMAIN cache : cache'[key] = cache[key]
                     /\ misses = {} => cache' = cache
       ELSE cache' = cache]_vars

\* a handler that made a call that missed and a call that hit, on a cache
\* holding an entry from before
C27_Witness ==
  /\ irrCalls # <<>>
  /\ \E m \in 1..Len(irrCalls) : \E n \in 1..Len(irrCalls) :
       /\ irrCalls[m].hit
       /\ ~irrCalls[n].hit
       /\ irrCalls[n].key \in DOMAIN cache
       /\ irrCalls[m].key # irrCalls[n].key
  /\ Cardinality(DOMAIN cache) >= 2

\* the responses of request k, in the order posted
ResponsesOf(k) == SelectSeq(outbox, LAMBDA r : r.req = k)

\* the message types whose handlers report progress
ReportingTypes ==
  {"monteCarlo", "portfolioProjections", "sensitivityAnalysis", "compareScenarios"}

\* every message that has arrived, in the order of arrival: the ones served,
\* then the ones waiting
Arrived(s, i) ==
  [k \in 1..(Len(s) + Len(i)) |->
     IF k <= Len(s) THEN <<s[k].type, s[k].id>>
     ELSE <<i[k - Len(s)].type, i[k - Len(s)].id>>]

\* a step serves at most one message, the oldest one waiting, and only
\* when no handler is running
ServedInArrivalOrder ==
  /\ \/ Arrived(served', inbox') = Arrived(served, inbox)
     \/ /\ Len(Arrived(served', inbox')) = Len(Arrived(served, inbox)) + 1
        /\ SubSeq(Arrived(served', inbox'), 1, Len(Arrived(served, inbox)))
             = Arrived(served, inbox)
  /\ Len(served') > Len(served) => (pc = "idle" /\ Len(served') = Len(served) + 1)

\* the responses of a request are posted before any response of the next
NoInterleaving ==
  \A i \in Posted : \A j \in Posted : i < j => outbox[i].req <= outbox[j].req

\* the terminal response of a request is its last response
TerminalLast ==
  \A k \in 1..Len(served) :
    LET rs == ResponsesOf(k)
    IN  /\ \A j \in 1..(Len(rs) - 1) : rs[j].type \notin TerminalTypes
        /\ Returned(k) => (rs # <<>> /\ rs[Len(rs)].type \in TerminalTypes)

\* the first response of a request of one of the types is 'started' (0)
StartedFirst(types) ==
  \A k \in 1..Len(served) :
    served[k].type \in types =>
      LET rs == ResponsesOf(k)
      IN  rs # <<>> /\ rs[1].status = "started" /\ rs[1].progress = 0

\* 'completed' (100) comes immediately before the result, and not at all when
\* the computation throws
CompletedBeforeResult ==
  \A k \in 1..Len(served) :
    served[k].type \in {"portfolioProjections", "sensitivityAnalysis", "compareScenarios"} =>
      LET rs == ResponsesOf(k)
      IN  \A j \in 1..Len(rs) :
            /\ rs[j].status = "completed" =>
                 (rs[j].progress = 100 /\ j < Len(rs) /\ rs[j + 1].type \in ResultTypes)
            /\ rs[j].type \in ResultTypes => (j > 1 /\ rs[j - 1].status = "completed")
            /\ rs[j].type = "error" => \A i \in 1..Len(rs) : rs[i].status # "completed"

\* C30 as stated: requests are served one at a time in arrival order and
\* their responses do not interleave; within every request 'started' (0) is
\* the first response and the terminal response the last; for
\* portfolioProjections, sensitivityAnalysis and compareScenarios 'completed'
\* (100) comes immediately before the result and never when the computation
\* throws.
C30_StartedFirstInEveryRequest ==
  /\ [](NoInterleaving /\ TerminalLast /\ CompletedBeforeResult)
  /\ [](StartedFirst(MessageTypes \cup UnknownTypes))
  /\ [][ServedInArrivalOrder]_vars

\* C30 (amended): as stated, with 'started' (0) the first response of every
\* monteCarlo, portfolioProjections, sensitivityAnalysis and compareScenarios
\* request; a clearCache, cancel or unrecognised request has its terminal
\* response and no other.
C30_ResponsesInOrder ==
  /\ [](NoInterleaving /\ TerminalLast /\ CompletedBeforeResult)
  /\ [](StartedFirst(ReportingTypes))
  /\ [](\A k \in 1..Len(served) :
          served[k].type \notin ReportingTypes =>
            (Len(ResponsesOf(k)) = 1 /\ ResponsesOf(k)[1].type \in TerminalTypes))
  /\ [][ServedInArrivalOrder]_vars

\* a computation that threw, then a clearCache, then a computation that
\* posted its result, while another message waits
C30_Witness ==
  /\ Len(served) = 3
  /\ pc = "idle"
  /\ served[1].type \in ReportingTypes
  /\ ResponsesOf(1)[Len(ResponsesOf(1))].type = "error"
  /\ served[2].type = "clearCache"
  /\ served[3].type \in {"sensitivityAnalysis", "compareScenarios"}
  /\ Len(ResponsesOf(3)) = 3
  /\ ResponsesOf(3)[3].type \in ResultTypes

(***************************************************************************)
(* The loan life cycle.                                                    *)
(***************************************************************************)
\* the place of an event in the order of the monthly checks
Rank(event) ==
  CASE event = "default" -> 1
    [] event = "earlyExit" -> 2
    [] event = "scheduledExit" -> 3
    [] event = "maturity" -> 4

\* C25: a loan goes from active to one of defaulted, earlyExit, scheduledExit
\* and matured and stays there; it emits one terminal cash flow, in the
\* month it leaves active, and none before or after; of the events that
\* fire in a month it takes the first in the order default, early exit,
\* scheduled exit, maturity-at-term.
C25_LoanLifeCycle ==
  /\ [](loan.state \in {"none", "active"} \cup OutcomeStates)
  /\ [](loan.state \in {"none", "active"} => loan.cashFlows = <<>>)
  /\ [](loan.state \in OutcomeStates =>
          /\ Len(loan.cashFlows) = 1
          /\ \E event \in loan.fired :
               /\ loan.state = OutcomeOf(event)
               /\ \A other \in loan.fired : Rank(event) <= Rank(other))
  /\ [][loan.state \in OutcomeStates =>
          (loan'.state = loan.state /\ loan'.cashFlows = loan.cashFlows)]_vars
  /\ [][(loan.state = "active" /\ loan'.state # "active") =>
          /\ loan'.state \in OutcomeStates
          /\ loan'.cashFlows = <<[month |-> loan.month, outcome |-> loan'.state]>>]_vars

\* a loan on which default, early exit and scheduled exit fired in the same
\* month, defaulted, and months after
C25_Witness ==
  /\ loan.state = "defaulted"
  /\ {"default", "earlyExit", "scheduledExit"} \subseteq loan.fired
  /\ Len(loan.cashFlows) = 1
  /\ loan.cashFlows[1].month > 0
  /\ loan.month > loan.cashFlows[1].month + 1

====
